---- MODULE Spec2Model ----
(***************************************************************************)
(* Tech volatility dashboard (app.py): load_data, calculate_metrics,       *)
(* calculate_correlation and the render cycle of main.                     *)
(*                                                                         *)
(* Numbers.  A float cell is an exact rational [ok, num, den]; ok = FALSE  *)
(* is the not-a-number cell.  Two columns hold the square of what the code *)
(* stores, because the code takes a square root there: the Volatility      *)
(* column holds (std * sqrt(252))^2 and a correlation entry holds          *)
(* sign(r) * r^2.  Both maps are one-to-one and keep definedness, equality *)
(* and the value 1.  Floating-point rounding is not modelled.              *)
(***************************************************************************)
EXTENDS Integers, Sequences, FiniteSets, TLC

VARIABLES pc, selected_ticker, cache, downloads, hit, raw_data,
          processed_data, ytd_return, corr_matrix, rendered, exc,
          called, universe, market

vars == <<pc, selected_ticker, cache, downloads, hit, raw_data,
          processed_data, ytd_return, corr_matrix, rendered, exc,
          called, universe, market>>

----------------------------------------------------------------------------
\* Program constants

\* rolling(window=21) of the volatility
VOL_WINDOW == 21

\* np.sqrt(252): trading days per year
ANNUALIZE == 252

\* rolling(window=50)
SMA_50_WINDOW == 50

\* rolling(window=200)
SMA_200_WINDOW == 200

\* .iloc[-252]: the offset of the 1-year return read, counted from the end
YEAR_OFFSET == 252

\* The ticker universe (the first three of the source's fifteen)
TECH_TICKERS == <<"AAPL", "MSFT", "NVDA">>

\* load_data's default period
DEFAULT_PERIOD == "5y"

----------------------------------------------------------------------------
\* Bounds of the model

\* longest price table of a render cycle
MaxRows == 253

\* longest price table handed to the two functions when called directly
MaxFnRows == 4

\* rows a newly listed ticker lacks at the start of the table
LateStart == 1

\* provider downloads after which the model stops downloading
MaxDownloads == 2

\* close prices of the tables
Prices == {1, 2}

----------------------------------------------------------------------------
\* Float cells

Abs(x) == IF x < 0 THEN -x ELSE x

RECURSIVE GCD(_, _)
GCD(a, b) == IF b = 0 THEN a ELSE GCD(b, a % b)

NaN == [ok |-> FALSE, num |-> 0, den |-> 1]

\* the float n/d; x/0 is not a finite number
Q(n, d) ==
    IF d = 0 THEN NaN
    ELSE LET g == GCD(Abs(n), Abs(d))
             s == IF d < 0 THEN -1 ELSE 1
         IN [ok |-> TRUE, num |-> s * (n \div g), den |-> s * (d \div g)]

QInt(n) == [ok |-> TRUE, num |-> n, den |-> 1]

QAdd(a, b) ==
    IF a.ok /\ b.ok THEN Q(a.num * b.den + b.num * a.den, a.den * b.den) ELSE NaN

QSub(a, b) ==
    IF a.ok /\ b.ok THEN Q(a.num * b.den - b.num * a.den, a.den * b.den) ELSE NaN

QMul(a, b) ==
    IF a.ok /\ b.ok THEN Q(a.num * b.num, a.den * b.den) ELSE NaN

QDiv(a, b) ==
    IF a.ok /\ b.ok THEN Q(a.num * b.den, a.den * b.num) ELSE NaN

\* IEEE equality: a not-a-number cell equals nothing, itself included
FloatEq(a, b) == a.ok /\ b.ok /\ a = b

IsOne(a) == a.ok /\ a.num = a.den

----------------------------------------------------------------------------
\* Series and frames.  A series is a sequence of cells over the table's date
\* index 1..rows; a frame maps column names to series; a price table is
\* [rows, cols] with cols mapping each ticker it holds to that ticker's frame.

\* the number, the sum and the sum of squares of the observations of
\* s[lo..hi] that are numbers (missing values are skipped)
RECURSIVE Count(_, _, _)
Count(s, lo, hi) ==
    IF lo > hi THEN 0
    ELSE IF lo = hi THEN (IF s[lo].ok THEN 1 ELSE 0)
    ELSE LET mid == (lo + hi) \div 2
         IN Count(s, lo, mid) + Count(s, mid + 1, hi)

RECURSIVE Sum(_, _, _)
Sum(s, lo, hi) ==
    IF lo > hi THEN QInt(0)
    ELSE IF lo = hi THEN (IF s[lo].ok THEN s[lo] ELSE QInt(0))
    ELSE LET mid == (lo + hi) \div 2
         IN QAdd(Sum(s, lo, mid), Sum(s, mid + 1, hi))

RECURSIVE SumSq(_, _, _)
SumSq(s, lo, hi) ==
    IF lo > hi THEN QInt(0)
    ELSE IF lo = hi THEN (IF s[lo].ok THEN QMul(s[lo], s[lo]) ELSE QInt(0))
    ELSE LET mid == (lo + hi) \div 2
         IN QAdd(SumSq(s, lo, mid), SumSq(s, mid + 1, hi))

\* Series.pct_change(): close[t] / close[t-1] - 1, nothing at the first date
pct_change(s) ==
    [d \in 1..Len(s) |->
        IF d = 1 THEN NaN ELSE QSub(QDiv(s[d], s[d - 1]), QInt(1))]

\* running totals: element d is the total of f over the observations of
\* s[lo..d] that are numbers, added to base
RECURSIVE CumCount(_, _, _, _)
CumCount(s, lo, hi, base) ==
    IF lo > hi THEN <<>>
    ELSE IF lo = hi THEN <<base + (IF s[lo].ok THEN 1 ELSE 0)>>
    ELSE LET mid  == (lo + hi) \div 2
             left == CumCount(s, lo, mid, base)
         IN left \o CumCount(s, mid + 1, hi, left[Len(left)])

RECURSIVE CumSum(_, _, _, _)
CumSum(s, lo, hi, base) ==
    IF lo > hi THEN <<>>
    ELSE IF lo = hi THEN <<IF s[lo].ok THEN QAdd(base, s[lo]) ELSE base>>
    ELSE LET mid  == (lo + hi) \div 2
             left == CumSum(s, lo, mid, base)
         IN left \o CumSum(s, mid + 1, hi, left[Len(left)])

\* the total of the window of w rows ending at row d, from running totals
WindowCount(cc, d, w) == cc[d] - (IF d > w THEN cc[d - w] ELSE 0)

WindowSum(cs, d, w) == IF d > w THEN QSub(cs[d], cs[d - w]) ELSE cs[d]

Squares(s) == [d \in 1..Len(s) |-> QMul(s[d], s[d])]

\* rolling(window=w): min_periods defaults to the window size
MinPeriodsOne(w) == 1

MinPeriods(w) == w

\* .rolling(window=w).mean(): over the numbers among the last w rows, and
\* missing when they are fewer than min_periods
rolling_mean(s, w) ==
    LET cc == CumCount(s, 1, Len(s), 0)
        cs == CumSum(s, 1, Len(s), QInt(0))
    IN [d \in 1..Len(s) |->
          LET n == WindowCount(cc, d, w)
          IN IF n >= MinPeriods(w)
             THEN QDiv(WindowSum(cs, d, w), QInt(n)) ELSE NaN]

\* .rolling(window=w).std() * np.sqrt(252), squared: the sample variance
\* (divisor n - 1) of the window times 252
rolling_std_annualized(s, w) ==
    LET cc == CumCount(s, 1, Len(s), 0)
        cs == CumSum(s, 1, Len(s), QInt(0))
        cq == CumSum(Squares(s), 1, Len(s), QInt(0))
    IN [d \in 1..Len(s) |->
          LET n  == WindowCount(cc, d, w)
              sx == WindowSum(cs, d, w)
          IN IF n >= MinPeriods(w)
             THEN QMul(QDiv(QSub(WindowSum(cq, d, w),
                                 QDiv(QMul(sx, sx), QInt(n))),
                            QInt(n - 1)),
                       QInt(ANNUALIZE))
             ELSE NaN]

\* .iloc[i] on a series: a negative i counts from the end, and a position
\* outside the series raises IndexError
iloc(s, i) ==
    LET k == IF i < 0 THEN Len(s) + i ELSE i
    IN IF k < 0 \/ k >= Len(s)
       THEN [raised |-> TRUE, value |-> NaN]
       ELSE [raised |-> FALSE, value |-> s[k + 1]]

----------------------------------------------------------------------------
\* Selections.  df[ticker] selects a ticker's frame out of the table; base
\* names the table column the selection shares its memory with, and NoBase
\* says it shares none.

NoBase == ""

NoFrame == [c \in {} |-> <<>>]

None == [none |-> TRUE, data |-> NoFrame]

getitem(df, ticker) == [base |-> ticker, data |-> df.cols[ticker]]

\* .copy()
copy_view(sel) == sel

copy(sel) == [base |-> NoBase, data |-> sel.data]

\* stock_df[col] = series, in the environment [df, sel]: a selection that
\* shares memory with the table writes through to it
setitem(env, col, series) ==
    LET data == (col :> series) @@ env.sel.data
    IN [sel |-> [env.sel EXCEPT !.data = data],
        df  |-> IF env.sel.base = NoBase THEN env.df
                ELSE [env.df EXCEPT !.cols[env.sel.base] = data]]

\* lines 39-50 of calculate_metrics: the derived columns, set one after the
\* other on stock_df
metrics_columns(e0) ==
    LET e1 == setitem(e0, "Daily Return", pct_change(e0.sel.data["Close"]))
        e2 == setitem(e1, "Volatility",
                      rolling_std_annualized(e1.sel.data["Daily Return"],
                                             VOL_WINDOW))
        e3 == setitem(e2, "SMA_50",
                      rolling_mean(e2.sel.data["Close"], SMA_50_WINDOW))
    IN setitem(e3, "SMA_200",
               rolling_mean(e3.sel.data["Close"], SMA_200_WINDOW))

\* calculate_metrics(df, ticker): ret is the returned value, df the caller's
\* table after the call.  df[ticker] raises KeyError for a ticker the table
\* does not hold, and the function returns None
calculate_metrics_empty(df, ticker) ==
    LET e == metrics_columns(
                 [df |-> df,
                  sel |-> IF ticker \in DOMAIN df.cols
                          THEN copy(getitem(df, ticker))
                          ELSE [base |-> NoBase,
                                data |-> [c \in {"Close"} |-> <<>>]]])
    IN [ret |-> [none |-> FALSE, data |-> e.sel.data], df |-> e.df]

calculate_metrics(df, ticker) ==
    IF ticker \notin DOMAIN df.cols
    THEN [ret |-> None, df |-> df]
    ELSE LET e == metrics_columns([df |-> df, sel |-> copy(getitem(df, ticker))])
         IN [ret |-> [none |-> FALSE, data |-> e.sel.data], df |-> e.df]

----------------------------------------------------------------------------
\* calculate_correlation.  A data frame built column by column:
\* [columns, index, data], index holding the dates (row numbers of the price
\* table) of its rows.

NoMatrix == [none |-> TRUE, axes |-> <<>>, index |-> <<>>, m |-> NoFrame]

\* pd.DataFrame()
EmptyDataFrame == [columns |-> <<>>, index |-> <<>>, data |-> NoFrame]

\* close_prices[ticker] = series: a new column goes last, an existing one is
\* overwritten in place; the first column brings the index
assign_column(cp, ticker, series) ==
    [columns |-> IF ticker \in DOMAIN cp.data THEN cp.columns
                 ELSE Append(cp.columns, ticker),
     index   |-> IF cp.columns = <<>> THEN [d \in 1..Len(series) |-> d]
                 ELSE cp.index,
     data    |-> (ticker :> series) @@ cp.data]

\* the body of the loop over tickers
loop_body_reindex(cp, df, ticker) ==
    IF ticker \in DOMAIN df.cols
    THEN assign_column(cp, ticker, pct_change(df.cols[ticker]["Close"]))
    ELSE assign_column(cp, ticker, [d \in 1..df.rows |-> NaN])

loop_body(cp, df, ticker) ==
    IF ticker \in DOMAIN df.cols
    THEN IF "Close" \in DOMAIN df.cols[ticker]
         THEN assign_column(cp, ticker, pct_change(df.cols[ticker]["Close"]))
         ELSE cp
    ELSE cp

\* for ticker in tickers
RECURSIVE for_tickers(_, _, _, _)
for_tickers(cp, df, tickers, i) ==
    IF i > Len(tickers) THEN cp
    ELSE for_tickers(loop_body(cp, df, tickers[i]), df, tickers, i + 1)

\* the positions of the rows lo..hi of cp that hold no missing value
RECURSIVE complete_rows(_, _, _)
complete_rows(cp, lo, hi) ==
    IF lo > hi THEN <<>>
    ELSE IF lo = hi
    THEN (IF \A c \in DOMAIN cp.data : cp.data[c][lo].ok THEN <<lo>> ELSE <<>>)
    ELSE LET mid == (lo + hi) \div 2
         IN complete_rows(cp, lo, mid) \o complete_rows(cp, mid + 1, hi)

take_rows(cp, keep) ==
    [columns |-> cp.columns,
     index   |-> [k \in 1..Len(keep) |-> cp.index[keep[k]]],
     data    |-> [c \in DOMAIN cp.data |->
                     [k \in 1..Len(keep) |-> cp.data[c][keep[k]]]]]

\* .dropna(): drop every row with a missing value in any column
dropna_none(cp) == cp

dropna(cp) == take_rows(cp, complete_rows(cp, 1, Len(cp.index)))

\* Pearson correlation of two columns over the rows where both are numbers
\* (pandas nancorr, min_periods = 1): not a number without such a row or
\* when a column does not vary; the entry is sign(r) * r^2
nancorr(x, y) ==
    LET n    == Len(x)
        xm   == [d \in 1..n |-> IF y[d].ok THEN x[d] ELSE NaN]
        ym   == [d \in 1..n |-> IF x[d].ok THEN y[d] ELSE NaN]
        xy   == [d \in 1..n |-> QMul(xm[d], ym[d])]
        nobs == Count(xy, 1, n)
        sx   == Sum(xm, 1, n)
        sy   == Sum(ym, 1, n)
        cov  == QSub(Sum(xy, 1, n), QDiv(QMul(sx, sy), QInt(nobs)))
        vx   == QSub(SumSq(xm, 1, n), QDiv(QMul(sx, sx), QInt(nobs)))
        vy   == QSub(SumSq(ym, 1, n), QDiv(QMul(sy, sy), QInt(nobs)))
        r2   == QMul(QDiv(cov, vx), QDiv(cov, vy))
    IN IF nobs < 1 THEN NaN
       ELSE IF vx.num = 0 \/ vy.num = 0 THEN NaN
       ELSE IF cov.num < 0 THEN QSub(QInt(0), r2) ELSE r2

\* .corr(): each pair of columns is computed once, the later column
\* against the earlier one, and the value is stored at both places
corr(cp) ==
    LET k    == Len(cp.columns)
        tri  == [i \in 1..k |-> [j \in 1..i |->
                    nancorr(cp.data[cp.columns[i]], cp.data[cp.columns[j]])]]
        pos  == [c \in DOMAIN cp.data |->
                    CHOOSE i \in 1..k : cp.columns[i] = c]
    IN [none  |-> FALSE,
        axes  |-> cp.columns,
        index |-> cp.index,
        m     |-> [a \in DOMAIN cp.data |-> [b \in DOMAIN cp.data |->
                     IF pos[a] >= pos[b] THEN tri[pos[a]][pos[b]]
                     ELSE tri[pos[b]][pos[a]]]]]

\* calculate_correlation(df, tickers); index records the dates the matrix
\* was computed over
calculate_correlation(df, tickers) ==
    LET close_prices == for_tickers(EmptyDataFrame, df, tickers, 1)
    IN [ret |-> corr(dropna(close_prices)), df |-> df]

----------------------------------------------------------------------------
\* The provider's tables

Tickers == {TECH_TICKERS[i] : i \in 1..Len(TECH_TICKERS)}

\* the close of a ticker on its k-th listed day
Pattern(ticker, k) ==
    IF ticker = "AAPL" THEN (IF k = 1 THEN 1 ELSE 2)
    ELSE IF ticker = "MSFT" THEN (IF k = 2 THEN 2 ELSE 1)
    ELSE (IF k % 2 = 1 THEN 1 ELSE 2)

\* what the provider has of a ticker: nothing (no column), the whole period,
\* a shorter history, or a column without a single price (failed fetch)
Listings == {"absent", "full", "late", "failed"}

FirstRow(listing, rows) ==
    IF listing = "full" THEN 0
    ELSE IF listing = "late" THEN LateStart
    ELSE rows

\* a ticker's frame in a table of the given number of rows: its closes are
\* missing on the first `start' dates, then price[1], price[2], ...
PriceFrame(rows, start, price) ==
    [c \in {"Close"} |->
        [d \in 1..rows |-> IF d <= start THEN NaN ELSE QInt(price[d - start])]]

\* table lengths of the render cycles: around each window and offset
RowCounts == {0, 1, VOL_WINDOW + 1, SMA_50_WINDOW, SMA_200_WINDOW}
                 \cup ((YEAR_OFFSET - 1)..MaxRows)

\* yf.download(tickers, period, group_by='ticker', auto_adjust=True), the
\* provider having `rows' trading days and `listing' of each ticker
yf_download(tickers, rows, listing) ==
    LET held == {t \in DOMAIN listing : listing[t] # "absent"}
    IN [rows |-> rows,
        cols |-> [t \in held |->
                     PriceFrame(rows, FirstRow(listing[t], rows),
                                [k \in 1..rows |-> Pattern(t, k)])]]

NoTable == [rows |-> 0, cols |-> NoFrame]

----------------------------------------------------------------------------
\* load_data under @st.cache_data: memoised on its arguments

CacheKey(tickers, period) == <<tickers, period>>

load_data_uncached(c, tickers, period, fetched) ==
    [data |-> fetched, downloaded |-> TRUE,
     cache |-> (CacheKey(tickers, period) :> fetched) @@ c]

load_data(c, tickers, period, fetched) ==
    LET key == CacheKey(tickers, period)
    IN IF key \in DOMAIN c
       THEN [data |-> c[key], downloaded |-> FALSE, cache |-> c]
       ELSE [data |-> fetched, downloaded |-> TRUE,
             cache |-> (key :> fetched) @@ c]

----------------------------------------------------------------------------
\* main, one render cycle after another

Init ==
    /\ pc = "idle"
    /\ selected_ticker = TECH_TICKERS[1]
    /\ cache = <<>>
    /\ downloads = 0
    /\ hit = FALSE
    /\ raw_data = NoTable
    /\ processed_data = None
    /\ ytd_return = NaN
    /\ corr_matrix = NoMatrix
    /\ rendered = {}
    /\ exc = "none"
    /\ called = "none"
    /\ universe = <<>>
    /\ market \in [rows : RowCounts, listing : [Tickers -> Listings]]

\* lines 72-81: title, the selectbox and load_data(TECH_TICKERS)
LoadData ==
    /\ pc \in {"idle", "done"}
    /\ \E t \in Tickers :
          LET r == load_data(cache, TECH_TICKERS, DEFAULT_PERIOD,
                             yf_download(TECH_TICKERS, market.rows, market.listing))
          IN /\ r.downloaded => downloads < MaxDownloads
             /\ selected_ticker' = t
             /\ raw_data' = r.data
             /\ cache' = r.cache
             /\ hit' = ~r.downloaded
             /\ downloads' = IF r.downloaded THEN downloads + 1 ELSE downloads
    /\ pc' = "metrics"
    /\ processed_data' = None
    /\ ytd_return' = NaN
    /\ corr_matrix' = NoMatrix
    /\ rendered' = {"title"}
    /\ exc' = "none"
    /\ called' = "load_data"
    /\ universe' = TECH_TICKERS
    /\ UNCHANGED market

\* lines 84-88: calculate_metrics, and the error message on None
Metrics ==
    /\ pc = "metrics"
    /\ LET r == calculate_metrics(raw_data, selected_ticker)
       IN /\ processed_data' = r.ret
          /\ raw_data' = r.df
          /\ IF r.ret.none
             THEN /\ rendered' = rendered \cup {"error"}
                  /\ pc' = "done"
             ELSE /\ rendered' = rendered
                  /\ pc' = "kpi"
    /\ called' = "calculate_metrics"
    /\ UNCHANGED <<selected_ticker, cache, downloads, hit, ytd_return,
                   corr_matrix, exc, universe, market>>

\* lines 91-130: the KPI reads, the three metrics, both charts and the data
\* view; an IndexError of a read ends the run
Kpi ==
    /\ pc = "kpi"
    /\ LET close  == processed_data.data["Close"]
           vol    == processed_data.data["Volatility"]
           latest == iloc(close, -1)
           latvol == iloc(vol, -1)
           past   == iloc(close, -YEAR_OFFSET)
       IN IF latest.raised \/ latvol.raised \/ past.raised
          THEN /\ exc' = "IndexError"
               /\ ytd_return' = NaN
               /\ rendered' = rendered \cup {"exception"}
               /\ pc' = "done"
          ELSE /\ exc' = exc
               /\ ytd_return' = QMul(QSub(QDiv(latest.value, past.value), QInt(1)),
                                     QInt(100))
               /\ rendered' = rendered \cup {"kpi", "price_chart", "vol_chart",
                                             "data_view"}
               /\ pc' = "corr"
    /\ UNCHANGED <<selected_ticker, cache, downloads, hit, raw_data,
                   processed_data, corr_matrix, called, universe, market>>

\* lines 131-151: calculate_correlation and the heatmap
Correlation ==
    /\ pc = "corr"
    /\ LET r == calculate_correlation(raw_data, TECH_TICKERS)
       IN /\ corr_matrix' = r.ret
          /\ raw_data' = r.df
    /\ rendered' = rendered \cup {"heatmap"}
    /\ called' = "calculate_correlation"
    /\ pc' = "done"
    /\ UNCHANGED <<selected_ticker, cache, downloads, hit, processed_data,
                   ytd_return, exc, universe, market>>

Next == LoadData \/ Metrics \/ Kpi \/ Correlation

Spec == Init /\ [][Next]_vars

----------------------------------------------------------------------------
\* The two functions called directly, in any order, on small tables

\* tickers whose closes range over all price sequences; the others follow
\* their pattern
FreeTickers == {"AAPL", "MSFT"}

Starts(rows) == {s \in {0, LateStart} : s <= rows}

\* the frames a ticker can have in a table of the given length; NoFrame
\* stands for a ticker the table does not hold
FnFrames(t, rows) ==
    {NoFrame} \cup
    (IF t \in FreeTickers
     THEN {PriceFrame(rows, s, f) :
              s \in Starts(rows), f \in [1..rows -> Prices]}
     ELSE {PriceFrame(rows, s, [k \in 1..rows |-> Pattern(t, k)]) :
              s \in Starts(rows)})

FnTablesOf(rows) ==
    LET frames == [t \in Tickers |-> FnFrames(t, rows)]
    IN {[rows |-> rows,
         cols |-> [t \in {u \in Tickers : c[u] # NoFrame} |-> c[t]]] :
           c \in {[t \in Tickers |->
                     IF t = TECH_TICKERS[1] THEN c1
                     ELSE IF t = TECH_TICKERS[2] THEN c2 ELSE c3] :
                  c1 \in frames[TECH_TICKERS[1]],
                  c2 \in frames[TECH_TICKERS[2]],
                  c3 \in frames[TECH_TICKERS[3]]}}

FnTables == UNION {FnTablesOf(rows) : rows \in 0..MaxFnRows}

\* ordered ticker universes: the sequences of distinct tickers
Universes ==
    {u \in UNION {[1..k -> Tickers] : k \in 0..Len(TECH_TICKERS)} :
        \A i, j \in DOMAIN u : i # j => u[i] # u[j]}

InitFn ==
    /\ pc = "fn"
    /\ selected_ticker = TECH_TICKERS[1]
    /\ cache = <<>>
    /\ downloads = 0
    /\ hit = FALSE
    /\ raw_data \in FnTables
    /\ processed_data = None
    /\ ytd_return = NaN
    /\ corr_matrix = NoMatrix
    /\ rendered = {}
    /\ exc = "none"
    /\ called = "none"
    /\ universe = <<>>
    /\ market = [rows |-> 0, listing |-> [t \in Tickers |-> "absent"]]

\* a call calculate_metrics(raw_data, t); processed_data is its result
CallMetrics ==
    /\ pc = "fn"
    /\ \E t \in Tickers :
          LET r == calculate_metrics(raw_data, t)
          IN /\ selected_ticker' = t
             /\ processed_data' = r.ret
             /\ raw_data' = r.df
    /\ called' = "calculate_metrics"
    /\ pc' = "returned"
    /\ UNCHANGED <<cache, downloads, hit, ytd_return, corr_matrix, rendered,
                   exc, universe, market>>

\* a call calculate_correlation(raw_data, u); corr_matrix is its result
CallCorrelation ==
    /\ pc = "fn"
    /\ \E u \in Universes :
          LET r == calculate_correlation(raw_data, u)
          IN /\ universe' = u
             /\ corr_matrix' = r.ret
             /\ raw_data' = r.df
    /\ called' = "calculate_correlation"
    /\ pc' = "returned"
    /\ UNCHANGED <<selected_ticker, cache, downloads, hit, processed_data,
                   ytd_return, rendered, exc, market>>

\* the caller drops the result and is ready for the next call, on the same
\* table
Discard ==
    /\ pc = "returned"
    /\ pc' = "fn"
    /\ selected_ticker' = TECH_TICKERS[1]
    /\ processed_data' = None
    /\ corr_matrix' = NoMatrix
    /\ universe' = <<>>
    /\ called' = "none"
    /\ UNCHANGED <<cache, downloads, hit, raw_data, ytd_return, rendered, exc,
                   market>>

NextFn == CallMetrics \/ CallCorrelation \/ Discard

SpecFn == InitFn /\ [][NextFn]_vars

----------------------------------------------------------------------------
\* Claims about the render cycle (under Spec)

MetricsColumns == {"Close", "Daily Return", "Volatility", "SMA_50", "SMA_200"}

PerTickerOutput == {"kpi", "price_chart", "vol_chart", "data_view"}

\* calculate_metrics has returned in this render cycle
MetricsReturned == pc \in {"kpi", "corr", "done"}

\* C1: calculate_metrics returns None, and no table, exactly for a ticker
\* the price table does not hold, and otherwise a table with the columns
\* Close, Daily Return, Volatility, SMA_50 and SMA_200 over every date; on
\* None main renders the error message and no per-ticker KPI or chart.
C1_NotFoundOrFullTable ==
    MetricsReturned =>
        /\ processed_data.none <=> selected_ticker \notin DOMAIN raw_data.cols
        /\ processed_data.none => DOMAIN processed_data.data = {}
        /\ ~processed_data.none =>
              /\ MetricsColumns \subseteq DOMAIN processed_data.data
              /\ \A c \in MetricsColumns :
                    Len(processed_data.data[c]) = raw_data.rows
        /\ (pc = "done" /\ processed_data.none) =>
              /\ "error" \in rendered
              /\ rendered \cap PerTickerOutput = {}

\* a run that ended with the error message for a ticker the table lacks
C1_Witness ==
    /\ pc = "done"
    /\ raw_data.rows > 0
    /\ selected_ticker \notin DOMAIN raw_data.cols
    /\ processed_data.none
    /\ "error" \in rendered

\* the KPI reads of lines 91-93 have run in this render cycle
KpiRead == pc = "corr" \/ (pc = "done" /\ ~processed_data.none)

\* C2: the 1-year return read fails with the out-of-range error for every
\* series of fewer than 253 rows, and yields a value only from 253 rows on.
C2_FailsBelow253Rows ==
    KpiRead =>
        LET rows == Len(processed_data.data["Close"])
        IN /\ rows < YEAR_OFFSET + 1 => exc = "IndexError" /\ "kpi" \notin rendered
           /\ rows >= YEAR_OFFSET + 1 => exc = "none" /\ "kpi" \in rendered

\* the correlation matrix holds an entry that is not a number
HasNaNEntry ==
    \E a \in DOMAIN corr_matrix.m : \E b \in DOMAIN corr_matrix.m :
        ~corr_matrix.m[a][b].ok

\* C3: when no date is retained, calculate_correlation does not return a
\* matrix of not-a-number entries and main does not render one as a heatmap.
C3_EmptyOverlapNotNaN ==
    (~corr_matrix.none /\ corr_matrix.index = <<>>) =>
        /\ ~HasNaNEntry
        /\ ~(HasNaNEntry /\ "heatmap" \in rendered)

\* the per-ticker stage of this run failed
PerTickerFailed == processed_data.none \/ exc = "IndexError"

\* C4: a run whose per-ticker stage failed still computes and renders the
\* correlation stage before it ends.
C4_CorrelationAfterFailure ==
    (pc = "done" /\ PerTickerFailed) =>
        /\ ~corr_matrix.none
        /\ "heatmap" \in rendered

\* the whole window of w rows ending at row d of series s is there
WholeWindow(s, d, w) == d >= w /\ \A k \in (d - w + 1)..d : s[k].ok

\* C8: in the table of calculate_metrics a rolling value is defined at a
\* date exactly when its whole trailing window ending at that date is
\* available: 21 defined daily returns for Volatility (the first date's
\* return is undefined, not zero), 50 closes for SMA_50, 200 for SMA_200.
C8_DefinedOnWholeWindow ==
    (MetricsReturned /\ ~processed_data.none) =>
        LET t     == processed_data.data
            close == t["Close"]
            ret   == t["Daily Return"]
        IN \A d \in 1..Len(close) :
              /\ ret[d].ok <=> (d > 1 /\ close[d].ok /\ close[d - 1].ok)
              /\ t["Volatility"][d].ok <=> WholeWindow(ret, d, VOL_WINDOW)
              /\ t["SMA_50"][d].ok <=> WholeWindow(close, d, SMA_50_WINDOW)
              /\ t["SMA_200"][d].ok <=> WholeWindow(close, d, SMA_200_WINDOW)

\* a table of a ticker listed late, long enough for every window: each
\* rolling value is missing at the last date before its window is whole and
\* defined at the last date of the table
C8_Witness ==
    /\ MetricsReturned
    /\ ~processed_data.none
    /\ LET t == processed_data.data
           n == Len(t["Close"])
       IN /\ n > SMA_200_WINDOW + LateStart
          /\ ~t["Close"][1].ok
          /\ t["Volatility"][n].ok /\ ~t["Volatility"][VOL_WINDOW + LateStart].ok
          /\ t["Volatility"][VOL_WINDOW + LateStart + 1].ok
          /\ t["SMA_50"][n].ok /\ ~t["SMA_50"][SMA_50_WINDOW + LateStart - 1].ok
          /\ t["SMA_200"][n].ok /\ ~t["SMA_200"][SMA_200_WINDOW + LateStart - 1].ok

\* C9: the provider download runs at most once over all render cycles, and
\* in every cycle the table handed to calculate_metrics and to
\* calculate_correlation is the one that download returned.
C9_DownloadOnce ==
    /\ downloads <= 1
    /\ pc \in {"metrics", "kpi", "corr", "done"} =>
          /\ CacheKey(TECH_TICKERS, DEFAULT_PERIOD) \in DOMAIN cache
          /\ raw_data = cache[CacheKey(TECH_TICKERS, DEFAULT_PERIOD)]
          /\ downloads = 1

\* a later render cycle, served from the cache, that ran both stages
C9_Witness ==
    /\ hit
    /\ pc = "done"
    /\ downloads = 1
    /\ ~processed_data.none
    /\ ~corr_matrix.none

----------------------------------------------------------------------------
\* Claims about the two functions (under SpecFn)

\* C5: the matrix of calculate_correlation is symmetric with a diagonal of
\* exactly 1.0, for every table and universe.
C5_SymmetricUnitDiagonal ==
    ~corr_matrix.none =>
        \A a \in DOMAIN corr_matrix.m :
            /\ IsOne(corr_matrix.m[a][a])
            /\ \A b \in DOMAIN corr_matrix.m :
                  FloatEq(corr_matrix.m[a][b], corr_matrix.m[b][a])

\* the tickers of the universe that the table holds, in universe order
PresentTickers == SelectSeq(universe, LAMBDA t : t \in DOMAIN raw_data.cols)

AxisSet == {corr_matrix.axes[i] : i \in 1..Len(corr_matrix.axes)}

\* C6: calculate_correlation returns a square matrix whose two axes are
\* exactly the universe tickers present in the table, in universe order.
C6_AxesArePresentTickers ==
    called = "calculate_correlation" =>
        /\ ~corr_matrix.none
        /\ corr_matrix.axes = PresentTickers
        /\ DOMAIN corr_matrix.m = AxisSet
        /\ \A a \in AxisSet : DOMAIN corr_matrix.m[a] = AxisSet
        /\ Cardinality(AxisSet) = Len(corr_matrix.axes)

\* a universe of three tickers of which the table holds one: a 1x1 matrix
C6_Witness ==
    /\ called = "calculate_correlation"
    /\ Len(universe) = 3
    /\ Len(corr_matrix.axes) = 1
    /\ universe[1] \notin DOMAIN raw_data.cols

\* the daily returns of a ticker of the table
ReturnsOf(t) == pct_change(raw_data.cols[t]["Close"])

\* the daily returns of the included tickers
IncludedReturns == [t \in AxisSet |-> ReturnsOf(t)]

\* the dates on which every included ticker has a defined daily return
CommonDates ==
    LET rets == IncludedReturns
    IN SelectSeq([d \in 1..raw_data.rows |-> d],
                 LAMBDA d : \A t \in AxisSet : rets[t][d].ok)

\* series s on the given dates only
OnDates(s, dates) == [k \in 1..Len(dates) |-> s[dates[k]]]

\* C7: every pairwise correlation is computed over one set of dates, the
\* dates on which every included ticker has a defined daily return.
C7_OneCommonDateSet ==
    (called = "calculate_correlation" /\ AxisSet # {}) =>
        LET dates == CommonDates
            rets  == [t \in AxisSet |-> OnDates(ReturnsOf(t), dates)]
        IN /\ corr_matrix.index = dates
           /\ \A a \in AxisSet : \A b \in AxisSet :
                 corr_matrix.m[a][b] = nancorr(rets[a], rets[b])

\* three included tickers, and a date that is dropped although two of them
\* have a defined return on it, while other dates are retained
C7_Witness ==
    /\ called = "calculate_correlation"
    /\ Len(corr_matrix.axes) = 3
    /\ Len(corr_matrix.index) >= 2
    /\ \E d \in 2..raw_data.rows :
          /\ \A k \in 1..Len(corr_matrix.index) : corr_matrix.index[k] # d
          /\ ReturnsOf("AAPL")[d].ok
          /\ ReturnsOf("MSFT")[d].ok
          /\ corr_matrix.m["AAPL"]["MSFT"].ok

\* C10: no call of calculate_metrics or calculate_correlation changes the
\* price table passed in.
C10_TableUnchanged == [][raw_data' = raw_data]_vars

\* a call of calculate_metrics that returned a table with the new columns
C10_Witness ==
    /\ pc = "returned"
    /\ called = "calculate_metrics"
    /\ ~processed_data.none
    /\ raw_data.rows > 1
    /\ MetricsColumns \subseteq DOMAIN processed_data.data

====
